---- MODULE Spec2Model ----
(***************************************************************************)
(* The scoring engine of challonge-to-csv: calculatePlayerPoints of        *)
(* src/routes/simpleBrackets.ts, run step by step over one tournament.     *)
(*                                                                         *)
(* Points are multiples of 0.5 in the code (exact in IEEE doubles at these *)
(* magnitudes).  streak_bonus and event_total are therefore held in units  *)
(* of HALF a point: 1 stands for 0.5, 2 for 1.0, 6 for 3.0.  finals_points *)
(* and the integer counters are held as the code holds them.               *)
(***************************************************************************)
EXTENDS Integers, Sequences, FiniteSets

\* ---------------------------------------------------------------- bounds
\* rounds of the longest ladder (a player's run of Swiss results)
MaxRounds == 5
\* matches of the longest pool, playoff or odd ladder
MaxMatches == 2
\* matches of the longest list that is compared with all its rearrangements
MaxPermuted == 3

\* ------------------------------------------------------------ JS values
\* null / undefined of an optional number (player1Score, final_rank, ...)
Null == -1
\* null of an optional name (winner)
NoName == "null"

Abs(x) == IF x < 0 THEN 0 - x ELSE x
Max(a, b) == IF a > b THEN a ELSE b

\* --------------------------------------------------- MatchWithPlayers
\* One processed match as processTournamentData returns it; the fields
\* calculatePlayerPoints never reads (matchId, playOrder, dates, ids,
\* groupStage) are left out.  scoreDifference is derived as the code does.
MatchWithPlayers(p1, p2, w, st, stage, rnd, s1, s2, ff) ==
  [player1 |-> p1, player2 |-> p2, winner |-> w, state |-> st,
   stageName |-> stage, round |-> rnd,
   player1Score |-> s1, player2Score |-> s2,
   scoreDifference |-> IF s1 # Null /\ s2 # Null THEN Abs(s1 - s2) ELSE Null,
   forfeited |-> ff]

\* ------------------------------------------------------- small helpers
\* Set.add on an insertion-ordered Set, held as a sequence without repeats
SetAdd(seq, x) ==
  IF \E i \in 1..Len(seq) : seq[i] = x THEN seq ELSE Append(seq, x)

Range(seq) == {seq[i] : i \in 1..Len(seq)}

\* Number.prototype.toString of a non-negative integer, as its digits
RECURSIVE ToString(_)
ToString(n) == IF n < 10 THEN <<n>> ELSE Append(ToString(n \div 10), n % 10)

\* s < t as strings (code-unit order; a proper prefix comes first)
RECURSIVE StringLess(_, _)
StringLess(s, t) ==
  IF t = <<>> THEN FALSE
  ELSE IF s = <<>> THEN TRUE
  ELSE IF Head(s) # Head(t) THEN Head(s) < Head(t)
  ELSE StringLess(Tail(s), Tail(t))

\* Array.prototype.sort() without a comparator: elements compared as strings
RECURSIVE InsertKey(_, _)
InsertKey(sorted, k) ==
  IF sorted = <<>> THEN <<k>>
  ELSE IF StringLess(ToString(k), ToString(Head(sorted)))
       THEN <<k>> \o sorted
       ELSE <<Head(sorted)>> \o InsertKey(Tail(sorted), k)

RECURSIVE SortKeys(_, _)
SortKeys(keys, acc) ==
  IF keys = <<>> THEN acc ELSE SortKeys(Tail(keys), InsertKey(acc, Head(keys)))

\* ------------------------------------------------- stage partition
IsGroupMatch(m) == m.stageName = "Group Stage"
IsFinalMatch(m) == m.stageName = "Final Stage" \/ m.stageName = "Main Bracket"

GroupMatches(ms) == SelectSeq(ms, IsGroupMatch)
FinalMatches(ms) == SelectSeq(ms, IsFinalMatch)

\* ------------------------------------------------- player discovery
\* (mutant) a discovery that takes "BYE" for a player
RECURSIVE DiscoverPlayers_KeepsBye(_, _)
DiscoverPlayers_KeepsBye(ms, acc) ==
  IF ms = <<>> THEN acc
  ELSE DiscoverPlayers_KeepsBye(Tail(ms),
         SetAdd(SetAdd(acc, Head(ms).player1), Head(ms).player2))

RECURSIVE DiscoverPlayers(_, _)
DiscoverPlayers(ms, acc) ==
  IF ms = <<>> THEN acc
  ELSE LET m == Head(ms)
           a1 == IF m.player1 # "" /\ m.player1 # "BYE"
                 THEN SetAdd(acc, m.player1) ELSE acc
           a2 == IF m.player2 # "" /\ m.player2 # "BYE"
                 THEN SetAdd(a1, m.player2) ELSE a1
       IN DiscoverPlayers(Tail(ms), a2)

InitialStats(p) ==
  [player |-> p, swiss_wins |-> 0, swiss_losses |-> 0, swiss_close_losses |-> 0,
   byes |-> 0, streak_bonus |-> 0, finals_place |-> Null, finals_points |-> 0,
   event_total |-> 0]

\* ------------------------------------------------- rounds of the group stage
\* (mutant) the rounds counted per match instead of per distinct round
GroupRounds_PerMatch(gms) == Len(gms)

\* new Set(groupMatches.map(m => m.round)).size
GroupRounds(gms) == Cardinality({gms[i].round : i \in 1..Len(gms)})

\* roundsMap.keys(): the rounds in order of first appearance
RECURSIVE RoundKeys(_, _)
RoundKeys(gms, acc) ==
  IF gms = <<>> THEN acc ELSE RoundKeys(Tail(gms), SetAdd(acc, Head(gms).round))

RECURSIVE ConcatRounds(_, _)
ConcatRounds(keys, gms) ==
  IF keys = <<>> THEN <<>>
  ELSE SelectSeq(gms, LAMBDA m : m.round = Head(keys)) \o ConcatRounds(Tail(keys), gms)

\* (mutant) the group matches visited as the input list has them
ProcessingOrder_AsGiven(gms) == gms

\* The group matches in the order the nested forEach visits them
ProcessingOrder(gms) == ConcatRounds(SortKeys(RoundKeys(gms, <<>>), <<>>), gms)

\* ------------------------------------------------- one group match
HasScore(m) == m.player1Score # Null /\ m.player2Score # Null

\* const loser = winner === player1 ? player2 : player1
LoserOf(m) == IF m.winner = m.player1 THEN m.player2 ELSE m.player1

\* (mutant) the bye branch is gone: an unscored match is a played match
Classify_NoByeBranch(m) ==
  IF m.state # "complete" THEN "incomplete"
  ELSE IF m.player1 = "" \/ m.player2 = "" \/ m.player1 = "BYE" \/ m.player2 = "BYE"
       THEN "byeplayer"
  ELSE IF m.winner = NoName \/ m.winner = "" \/ LoserOf(m) = "" THEN "nowinner"
  ELSE IF m.forfeited THEN "forfeit"
  ELSE "played"

\* Which branch of the roundMatches.forEach body a match takes
Classify(m) ==
  IF m.state # "complete" THEN "incomplete"
  ELSE IF m.player1 = "" \/ m.player2 = "" \/ m.player1 = "BYE" \/ m.player2 = "BYE"
       THEN "byeplayer"
  ELSE IF m.winner = NoName \/ m.winner = "" \/ LoserOf(m) = "" THEN "nowinner"
  ELSE IF ~m.forfeited /\ ~HasScore(m) THEN "bye"
  ELSE IF m.forfeited THEN "forfeit"
  ELSE "played"

\* The tabulation state is tab = [stats, streaks, bonuses]:
\* playerStatsMap, winStreaks and totalStreakBonuses.

\* (mutant) a forfeit loss also clears the bonus the loser has earned
ForfeitMatch_ClearsBonus(m, tab) ==
  LET w == m.winner
      l == LoserOf(m)
      stats1 == IF w \in DOMAIN tab.stats
                THEN [tab.stats EXCEPT ![w].swiss_wins = @ + 1]
                ELSE tab.stats
  IN [stats |-> stats1,
      streaks |-> [tab.streaks EXCEPT ![l] = 0],
      bonuses |-> [tab.bonuses EXCEPT ![l] = 0]]

\* (mutant) a forfeit win extends the winner's streak
ForfeitMatch_BuildsStreak(m, tab) ==
  LET w == m.winner
      l == LoserOf(m)
      stats1 == IF w \in DOMAIN tab.stats
                THEN [tab.stats EXCEPT ![w].swiss_wins = @ + 1]
                ELSE tab.stats
      streaks1 == IF w \in DOMAIN tab.streaks
                  THEN [tab.streaks EXCEPT ![w] = @ + 1] ELSE tab.streaks
  IN [stats |-> stats1,
      streaks |-> [streaks1 EXCEPT ![l] = 0],
      bonuses |-> tab.bonuses]

\* 2. FORFEIT: the winner's win, the loser's streak reset
ForfeitMatch(m, tab) ==
  LET w == m.winner
      l == LoserOf(m)
      stats1 == IF w \in DOMAIN tab.stats
                THEN [tab.stats EXCEPT ![w].swiss_wins = @ + 1]
                ELSE tab.stats
  IN [stats |-> stats1,
      streaks |-> [tab.streaks EXCEPT ![l] = 0],
      bonuses |-> tab.bonuses]

\* (mutant) the first win of a streak earns the bonus too
StreakIncrement_FirstWin(currentStreak) ==
  LET newStreak == currentStreak + 1
  IN IF newStreak >= 1 /\ newStreak > currentStreak THEN 1 ELSE 0

\* (mutant) the bonus starts one win late
StreakIncrement_Late(currentStreak) ==
  LET newStreak == currentStreak + 1
  IN IF newStreak >= 2 /\ newStreak > currentStreak /\ currentStreak >= 2
     THEN 1 ELSE 0

\* The bonus a regular win adds (in half points) given the streak before it
StreakIncrement(currentStreak) ==
  LET newStreak == currentStreak + 1
  IN IF newStreak >= 2 /\ newStreak > currentStreak /\ currentStreak >= 1
     THEN 1 ELSE 0

\* (mutant) a difference of exactly 2 is no longer close
IsCloseLoss_Strict(m) == m.scoreDifference # Null /\ m.scoreDifference < 2

\* The loss counter a regular loss goes to
IsCloseLoss(m) == m.scoreDifference # Null /\ m.scoreDifference <= 2

\* 3. PLAYED MATCH
PlayedMatch(m, tab) ==
  LET w == m.winner
      l == LoserOf(m)
      hasW == w \in DOMAIN tab.stats
      hasL == l \in DOMAIN tab.stats
      stats1 == IF hasW THEN [tab.stats EXCEPT ![w].swiss_wins = @ + 1]
                ELSE tab.stats
      streaks1 == IF hasW THEN [tab.streaks EXCEPT ![w] = @ + 1] ELSE tab.streaks
      bonuses1 == IF hasW
                  THEN [tab.bonuses EXCEPT ![w] = @ + StreakIncrement(tab.streaks[w])]
                  ELSE tab.bonuses
      stats2 == IF ~hasL THEN stats1
                ELSE IF IsCloseLoss(m)
                     THEN [stats1 EXCEPT ![l].swiss_close_losses = @ + 1]
                     ELSE [stats1 EXCEPT ![l].swiss_losses = @ + 1]
      streaks2 == IF hasL THEN [streaks1 EXCEPT ![l] = 0] ELSE streaks1
  IN [stats |-> stats2, streaks |-> streaks2, bonuses |-> bonuses1]

\* The whole body of roundMatches.forEach for one match
ProcessMatch(m, tab) ==
  CASE Classify(m) = "forfeit" -> ForfeitMatch(m, tab)
    [] Classify(m) = "played" -> PlayedMatch(m, tab)
    [] OTHER -> tab

\* ------------------------------------------------- after the rounds
\* stats.streak_bonus = totalStreakBonuses.get(player) || 0
ApplyStreakBonuses(stats, bonuses) ==
  [p \in DOMAIN stats |-> [stats[p] EXCEPT !.streak_bonus = bonuses[p]]]

\* groupMatches.filter(player is player1 or player2, state complete).length
ActualMatches(p, gms) ==
  Cardinality({i \in 1..Len(gms) :
     (gms[i].player1 = p \/ gms[i].player2 = p) /\ gms[i].state = "complete"})

ByesOf(p, gms) == Max(0, GroupRounds(gms) - ActualMatches(p, gms))

CalculateByes(stats, gms) ==
  [p \in DOMAIN stats |-> [stats[p] EXCEPT !.byes = ByesOf(p, gms)]]

\* matches.some(...): a complete, non-forfeited match of the player with a score
EverPlayed(p, ms) ==
  \E i \in 1..Len(ms) :
     /\ ms[i].player1 = p \/ ms[i].player2 = p
     /\ ms[i].state = "complete"
     /\ ms[i].forfeited # TRUE
     /\ HasScore(ms[i]) \/ ms[i].scoreDifference # Null

WipedStats(s) ==
  [s EXCEPT !.swiss_wins = 0, !.swiss_losses = 0, !.swiss_close_losses = 0,
            !.byes = 0, !.streak_bonus = 0, !.finals_points = 0, !.event_total = 0]

WipeNeverPlayed(stats, ms) ==
  [p \in DOMAIN stats |-> IF EverPlayed(p, ms) THEN stats[p] ELSE WipedStats(stats[p])]

\* ------------------------------------------------- finals placement
\* tournament.participants is a sequence of [name, final_rank]; final_rank is
\* Null where the participant carries none (undefined).

\* (a.final_rank || 999) - (b.final_rank || 999) < 0
RankKey(r) == IF r = 0 \/ r = Null THEN 999 ELSE r

RECURSIVE InsertFinalist(_, _)
InsertFinalist(sorted, f) ==
  IF sorted = <<>> THEN <<f>>
  ELSE IF RankKey(f.final_rank) < RankKey(Head(sorted).final_rank)
       THEN <<f>> \o sorted
       ELSE <<Head(sorted)>> \o InsertFinalist(Tail(sorted), f)

RECURSIVE SortFinalists(_, _)
SortFinalists(fs, acc) ==
  IF fs = <<>> THEN acc ELSE SortFinalists(Tail(fs), InsertFinalist(acc, Head(fs)))

Finalists(participants) ==
  SortFinalists(SelectSeq(participants, LAMBDA p : p.final_rank # Null), <<>>)

\* (mutant) the runner-up paid like the third place
PlacementPoints_RunnerUpThree(rank) ==
  IF rank = 1 THEN 6
  ELSE IF rank = 2 THEN 3
  ELSE IF rank = 3 THEN 3
  ELSE IF rank = 4 THEN 2
  ELSE IF rank >= 5 /\ rank <= 8 THEN 1
  ELSE Null

\* (mutant) ranks 5 to 8 paid like rank 4
PlacementPoints_TopEightTwo(rank) ==
  IF rank = 1 THEN 6
  ELSE IF rank = 2 THEN 4
  ELSE IF rank = 3 THEN 3
  ELSE IF rank >= 4 /\ rank <= 8 THEN 2
  ELSE Null

\* Points of a final rank; Null where the if-chain assigns nothing
PlacementPoints(rank) ==
  IF rank = 1 THEN 6
  ELSE IF rank = 2 THEN 4
  ELSE IF rank = 3 THEN 3
  ELSE IF rank = 4 THEN 2
  ELSE IF rank >= 5 /\ rank <= 8 THEN 1
  ELSE Null

AssignFinalist(stats, f) ==
  IF f.name \in DOMAIN stats /\ f.final_rank # Null
  THEN [stats EXCEPT ![f.name].finals_place = f.final_rank,
                     ![f.name].finals_points =
                        IF PlacementPoints(f.final_rank) # Null
                        THEN PlacementPoints(f.final_rank) ELSE @]
  ELSE stats

RECURSIVE AssignFinalists(_, _)
AssignFinalists(stats, fs) ==
  IF fs = <<>> THEN stats
  ELSE AssignFinalists(AssignFinalist(stats, Head(fs)), Tail(fs))

\* ------------------------------------------------- totals and order
\* (mutant) a total that forgets the byes
EventTotal_NoByes(s) ==
  s.swiss_wins * 6 + s.swiss_close_losses * 3 + s.swiss_losses * 1
    + s.streak_bonus + s.finals_points * 2

\* In half points: 3 -> 6, 1.5 -> 3, 0.5 -> 1; streak_bonus is in half points
EventTotal(s) ==
  s.swiss_wins * 6 + s.swiss_close_losses * 3 + s.swiss_losses * 1
    + s.streak_bonus + s.byes * 6 + s.finals_points * 2

CalculateTotals(stats) ==
  [p \in DOMAIN stats |-> [stats[p] EXCEPT !.event_total = EventTotal(stats[p])]]

\* (mutant) the comparator a.event_total - b.event_total: ascending
RECURSIVE InsertByTotal_Ascending(_, _)
InsertByTotal_Ascending(sorted, s) ==
  IF sorted = <<>> THEN <<s>>
  ELSE IF s.event_total - Head(sorted).event_total < 0
       THEN <<s>> \o sorted
       ELSE <<Head(sorted)>> \o InsertByTotal_Ascending(Tail(sorted), s)

\* .sort((a, b) => b.event_total - a.event_total), a stable sort
RECURSIVE InsertByTotal(_, _)
InsertByTotal(sorted, s) ==
  IF sorted = <<>> THEN <<s>>
  ELSE IF Head(sorted).event_total - s.event_total < 0
       THEN <<s>> \o sorted
       ELSE <<Head(sorted)>> \o InsertByTotal(Tail(sorted), s)

RECURSIVE SortByTotal(_, _)
SortByTotal(list, acc) ==
  IF list = <<>> THEN acc ELSE SortByTotal(Tail(list), InsertByTotal(acc, Head(list)))

\* Array.from(playerStatsMap.values()): the records in insertion order
StatsValues(ps, stats) == [i \in 1..Len(ps) |-> stats[ps[i]]]

\* ================================================= the whole call
\* groupMatches... forEach: the matches of the processing order, one by one
RECURSIVE ProcessAll(_, _)
ProcessAll(order, tab) ==
  IF order = <<>> THEN tab
  ELSE ProcessAll(Tail(order), ProcessMatch(Head(order), tab))

\* playerStatsMap as it stands before the final sort, for a call that returns
FinalStatsMap(t, ms) ==
  LET ps == Range(DiscoverPlayers(ms, <<>>))
      fresh == [p \in ps |-> InitialStats(p)]
      zero == [p \in ps |-> 0]
      gms == GroupMatches(ms)
      tab == ProcessAll(ProcessingOrder(gms),
                        [stats |-> fresh, streaks |-> zero, bonuses |-> zero])
      swiss == IF Len(gms) > 0
               THEN WipeNeverPlayed(
                      CalculateByes(ApplyStreakBonuses(tab.stats, tab.bonuses), gms),
                      ms)
               ELSE fresh
      placed == IF Len(FinalMatches(ms)) > 0
                THEN AssignFinalists(swiss, Finalists(t.participants))
                ELSE swiss
  IN CalculateTotals(placed)

\* calculatePlayerPoints(tournament, matches), for a call that returns
calculatePlayerPoints(t, ms) ==
  SortByTotal(StatsValues(DiscoverPlayers(ms, <<>>), FinalStatsMap(t, ms)), <<>>)

\* ================================================= from the API data
\* A string is the sequence of its characters: "5-2" is <<"5", "-", "2">>.
\* A missing (undefined, null) string and the empty string are both <<>>:
\* the code tests them for truthiness only.
DigitChars == <<"0", "1", "2", "3", "4", "5", "6", "7", "8", "9">>

IsDigit(c) == \E d \in 1..10 : DigitChars[d] = c

DigitValue(c) == (CHOOSE d \in 1..10 : DigitChars[d] = c) - 1

\* String.prototype.split(sep): the pieces between the separators
RECURSIVE Split(_, _)
Split(str, sep) ==
  IF \A i \in 1..Len(str) : str[i] # sep THEN <<str>>
  ELSE LET k == CHOOSE i \in 1..Len(str) :
                  str[i] = sep /\ \A j \in 1..(i - 1) : str[j] # sep
       IN <<SubSeq(str, 1, k - 1)>> \o Split(SubSeq(str, k + 1, Len(str)), sep)

RECURSIVE SkipSpaces(_)
SkipSpaces(str) ==
  IF str # <<>> /\ Head(str) = " " THEN SkipSpaces(Tail(str)) ELSE str

\* The value of the longest prefix of digits, from the value acc so far, and
\* how many digits it has
RECURSIVE LeadingDigits(_, _, _)
LeadingDigits(str, acc, n) ==
  IF str # <<>> /\ IsDigit(Head(str))
  THEN LeadingDigits(Tail(str), acc * 10 + DigitValue(Head(str)), n + 1)
  ELSE [value |-> acc, digits |-> n]

\* parseInt(str, 10): leading white space, a sign, then digits; what follows
\* the digits is ignored; NaN when there is no digit
ParseInt(str) ==
  LET t == SkipSpaces(str)
      signed == t # <<>> /\ (Head(t) = "-" \/ Head(t) = "+")
      d == LeadingDigits(IF signed THEN Tail(t) ELSE t, 0, 0)
  IN IF d.digits = 0 THEN [nan |-> TRUE, value |-> 0]
     ELSE [nan |-> FALSE,
           value |-> IF signed /\ Head(t) = "-" THEN 0 - d.value ELSE d.value]

\* null / undefined of an id
NoId == ""

\* (mutant) the two numbers always taken in the order of the string
extractScoresFromCsv_Positional(match) ==
  IF match.scores_csv # <<>>
  THEN LET scoresParts == Split(match.scores_csv, "-")
       IN IF Len(scoresParts) >= 2
             /\ ~ParseInt(scoresParts[1]).nan /\ ~ParseInt(scoresParts[2]).nan
          THEN [player1Score |-> ParseInt(scoresParts[1]).value,
                player2Score |-> ParseInt(scoresParts[2]).value]
          ELSE [player1Score |-> Null, player2Score |-> Null]
  ELSE [player1Score |-> match.player1_score, player2Score |-> match.player2_score]

\* lines 131-167; player1_score and player2_score are Null where undefined
extractScoresFromCsv(match) ==
  IF match.scores_csv # <<>>
  THEN LET scoresParts == Split(match.scores_csv, "-")
       IN IF Len(scoresParts) >= 2
          THEN LET score1 == ParseInt(scoresParts[1])
                   score2 == ParseInt(scoresParts[2])
               IN IF ~score1.nan /\ ~score2.nan
                  THEN IF match.winner_id = match.player1_id
                       THEN [player1Score |-> score1.value, player2Score |-> score2.value]
                       ELSE IF match.winner_id = match.player2_id
                       THEN [player1Score |-> score2.value, player2Score |-> score1.value]
                       ELSE [player1Score |-> score1.value, player2Score |-> score2.value]
                  ELSE [player1Score |-> Null, player2Score |-> Null]
          ELSE [player1Score |-> Null, player2Score |-> Null]
  ELSE [player1Score |-> match.player1_score, player2Score |-> match.player2_score]

\* participantMap.get(id) || fallback; the participants carry no
\* group_player_ids, so groupPlayerMap is empty and both naming branches
\* (lines 379-397) come to this lookup
NameOf(participants, id, fallback) ==
  LET hits == { i \in 1..Len(participants) : participants[i].id = id }
  IN IF hits = {} THEN fallback
     ELSE LET last == CHOOSE i \in hits : \A j \in hits : j <= i
          IN IF participants[last].name = "" THEN fallback
             ELSE participants[last].name

\* lines 411-430
StageName(t, match) ==
  IF t.group_stages_enabled
  THEN IF match.group_id # NoId THEN "Group Stage" ELSE "Final Stage"
  ELSE "Main Bracket"

\* lines 369-451: one match of tournament.matches made a MatchWithPlayers
ProcessMatchData(t, match) ==
  LET participants == IF "participants" \in DOMAIN t THEN t.participants ELSE <<>>
      player1Name == IF match.player1_id # NoId
                     THEN NameOf(participants, match.player1_id, "Player 1")
                     ELSE "BYE"
      player2Name == IF match.player2_id # NoId
                     THEN NameOf(participants, match.player2_id, "Player 2")
                     ELSE "BYE"
      winnerName == IF match.winner_id # NoId
                    THEN NameOf(participants, match.winner_id, "Winner")
                    ELSE NoName
      scores == extractScoresFromCsv(match)
  IN MatchWithPlayers(player1Name, player2Name, winnerName, match.state,
                      StageName(t, match), match.round,
                      scores.player1Score, scores.player2Score, match.forfeited)

\* lines 325-460: processedMatches
processCommunityTournamentData(t) ==
  [i \in 1..Len(t.matches) |-> ProcessMatchData(t, t.matches[i])]

\* ================================================= inputs
Participant(n, r) == [name |-> n, final_rank |-> r]

\* tournament.participants with the final ranks of A, B and C
Standings(ra, rb, rc) ==
  <<Participant("A", ra), Participant("B", rb), Participant("C", rc)>>

Unranked == Standings(Null, Null, Null)

\* --- ladders: A meets B once in each of rounds 1..n
LadderMatch(r, o) ==
  CASE o = "win" ->
         MatchWithPlayers("A", "B", "A", "complete", "Group Stage", r, 5, 2, FALSE)
    [] o = "closeloss" ->
         MatchWithPlayers("A", "B", "B", "complete", "Group Stage", r, 4, 5, FALSE)
    [] o = "forfeitwin" ->
         MatchWithPlayers("A", "B", "A", "complete", "Group Stage", r, Null, Null, TRUE)
    [] o = "forfeitloss" ->
         MatchWithPlayers("B", "A", "B", "complete", "Group Stage", r, 1, 0, TRUE)
    [] o = "bye" ->
         MatchWithPlayers("A", "B", "A", "complete", "Group Stage", r, Null, Null, FALSE)
    [] o = "wideloss" ->
         MatchWithPlayers("B", "A", "B", "complete", "Group Stage", r, 5, 1, FALSE)
    [] o = "open" ->
         MatchWithPlayers("A", "B", NoName, "open", "Group Stage", r, Null, Null, FALSE)
    [] o = "nobody" ->
         MatchWithPlayers("A", "BYE", "A", "complete", "Group Stage", r, Null, Null, FALSE)
    [] o = "unknown" ->
         MatchWithPlayers("A", "B", "Winner", "complete", "Group Stage", r, 3, 0, FALSE)
    [] o = "nowinner" ->
         MatchWithPlayers("A", "B", NoName, "complete", "Group Stage", r, 2, 2, FALSE)

\* the ladder of the results f[1], ..., f[n]
Ladder(f) == [i \in DOMAIN f |-> LadderMatch(i, f[i])]

\* the results that build, keep or break a streak, over up to MaxRounds rounds
StreakOutcomes == { "win", "closeloss", "forfeitwin", "forfeitloss", "bye" }

\* every branch of the per-match classification, over up to MaxMatches rounds
OddOutcomes == StreakOutcomes \cup { "wideloss", "open", "nobody", "unknown", "nowinner" }

\* --- pools: up to MaxMatches matches among A, B and C, group stage or finals
Pairings == { <<"A", "B">>, <<"C", "A">> }

\* stage and round; rounds 2 and 10 sort as "10" < "2"
Slots == { <<"Group Stage", 2>>, <<"Group Stage", 10>>, <<"Final Stage", 1>> }

PoolOutcomes == { "p1wins", "p2close", "forfeit", "open" }

PoolMatch(pr, sl, o) ==
  CASE o = "p1wins" ->
         MatchWithPlayers(pr[1], pr[2], pr[1], "complete", sl[1], sl[2], 5, 2, FALSE)
    [] o = "p2close" ->
         MatchWithPlayers(pr[1], pr[2], pr[2], "complete", sl[1], sl[2], 3, 5, FALSE)
    [] o = "forfeit" ->
         MatchWithPlayers(pr[1], pr[2], pr[1], "complete", sl[1], sl[2], Null, Null, TRUE)
    [] o = "open" ->
         MatchWithPlayers(pr[1], pr[2], NoName, "open", sl[1], sl[2], Null, Null, FALSE)

\* the pool of the matches f[1], ..., f[n], each <<pairing, slot, outcome>>
Pool(f) == [i \in DOMAIN f |-> PoolMatch(f[i][1], f[i][2], f[i][3])]

PoolShapes == Pairings \X Slots \X PoolOutcomes

PoolTables == { Unranked, Standings(1, 2, 3) }

\* --- playoffs: a bracket without group stage, and every kind of final rank
PlayoffShapes ==
  (Pairings \cup { <<"B", "C">> }) \X { <<"Main Bracket", 1>> } \X { "p1wins", "open" }

PlayoffTables ==
  { Standings(2, 1, 4), Standings(3, 5, 9), Standings(8, Null, 0) }

\* --- fetched tournaments: the API data of a tournament of one match, A
\* against B, which the points route first turns into a processed match
ScoreStrings ==
  { <<"5", "-", "2">>, <<"2", "-", "5">>, <<"1", "2", "-", "3">>,
    <<"0", "-", "0">>, <<" ", "5", "-", "2", "x">>,
    <<"5">>, <<"5", "-">>, <<"x", "-", "2">>, <<"5", "-", "x">>,
    <<"-", "1", "-", "3">> }

\* scores_csv with player1_score and player2_score: a score string and no
\* score fields, or no score string and either
ScoreFields ==
  { <<str, Null, Null>> : str \in ScoreStrings }
    \cup { <<<<>>, Null, Null>>, <<<<>>, 3, 1>> }

ChallongeMatchData(w, sc, ff, g) ==
  [player1_id |-> "a", player2_id |-> "b", winner_id |-> w,
   scores_csv |-> sc[1], player1_score |-> sc[2], player2_score |-> sc[3],
   state |-> "complete", round |-> 1, forfeited |-> ff, group_id |-> g]

FetchedParticipants ==
  <<[id |-> "a", name |-> "A", final_rank |-> Null],
    [id |-> "b", name |-> "B", final_rank |-> Null]>>

\* the winner is player1, player2, none, or an id of no participant
Fetched ==
  { [group_stages_enabled |-> gs, participants |-> FetchedParticipants,
     matches |-> <<ChallongeMatchData(w, sc, ff, g)>>] :
      gs \in BOOLEAN, w \in { "a", "b", NoId, "z" }, sc \in ScoreFields,
      ff \in BOOLEAN, g \in { "g", NoId } }

\* --- bare tournaments: the tournament object has no participants property
BareShapes == { <<"A", "B">> } \X Slots \X { "p1wins", "open" }

Bare == [id |-> "t"]

\* tournament.participants is not undefined
HasParticipants(t) == "participants" \in DOMAIN t

\* ================================================= the state machine
\* done: how many matches of the processing order the forEach has visited
VARIABLES tournament, matches, pc, players, playerStatsMap, winStreaks,
          totalStreakBonuses, groupRounds, done, result

vars == <<tournament, matches, pc, players, playerStatsMap, winStreaks,
          totalStreakBonuses, groupRounds, done, result>>

inputs == <<tournament, matches>>

Empty == [n \in {} |-> 0]

\* roundsMap walked in sorted key order; fixed once the matches are given
Order == ProcessingOrder(GroupMatches(matches))

Init ==
  /\ \/ /\ \E n \in 0..MaxRounds : \E f \in [1..n -> StreakOutcomes] :
              matches = Ladder(f)
        /\ tournament = [participants |-> Unranked]
        /\ pc = "start"
     \/ /\ \E n \in 1..MaxMatches : \E f \in [1..n -> OddOutcomes] :
              matches = Ladder(f)
        /\ tournament = [participants |-> Unranked]
        /\ pc = "start"
     \/ /\ \E n \in 1..MaxMatches : \E f \in [1..n -> PoolShapes] :
              matches = Pool(f)
        /\ tournament \in [participants : PoolTables]
        /\ pc = "start"
     \/ /\ \E n \in 1..MaxMatches : \E f \in [1..n -> PlayoffShapes] :
              matches = Pool(f)
        /\ tournament \in [participants : PlayoffTables]
        /\ pc = "start"
     \/ /\ \E n \in 0..MaxMatches : \E f \in [1..n -> BareShapes] :
              matches = Pool(f)
        /\ tournament = Bare
        /\ pc = "start"
     \/ /\ tournament \in Fetched
        /\ matches = <<>>
        /\ pc = "fetched"
  /\ players = <<>>
  /\ playerStatsMap = Empty
  /\ winStreaks = Empty
  /\ totalStreakBonuses = Empty
  /\ groupRounds = 0
  /\ done = 0
  /\ result = <<>>

\* lines 887-890: the points route processes the fetched data and hands the
\* processed matches to calculatePlayerPoints
ProcessData ==
  /\ pc = "fetched"
  /\ matches' = processCommunityTournamentData(tournament)
  /\ pc' = "start"
  /\ UNCHANGED <<tournament, players, playerStatsMap, winStreaks,
                 totalStreakBonuses, groupRounds, done, result>>

\* lines 508-536: the partition, the players, one zeroed record each
Discover ==
  /\ pc = "start"
  /\ players' = DiscoverPlayers(matches, <<>>)
  /\ playerStatsMap' = [p \in Range(players') |-> InitialStats(p)]
  /\ pc' = "group"
  /\ UNCHANGED <<inputs, winStreaks, totalStreakBonuses, groupRounds, done, result>>

\* lines 539-560: if (groupMatches.length > 0), the rounds and the streak maps
SetupGroup ==
  /\ pc = "group"
  /\ IF Len(GroupMatches(matches)) > 0
     THEN /\ groupRounds' = GroupRounds(GroupMatches(matches))
          /\ winStreaks' = [p \in Range(players) |-> 0]
          /\ totalStreakBonuses' = [p \in Range(players) |-> 0]
          /\ pc' = "rounds"
     ELSE /\ pc' = "finals"
          /\ UNCHANGED <<groupRounds, winStreaks, totalStreakBonuses>>
  /\ UNCHANGED <<inputs, players, playerStatsMap, done, result>>

Tab == [stats |-> playerStatsMap, streaks |-> winStreaks,
        bonuses |-> totalStreakBonuses]

\* lines 566-643: the forEach body for the next match in processing order
Process ==
  /\ pc = "rounds"
  /\ done < Len(Order)
  /\ LET t == ProcessMatch(Order[done + 1], Tab)
     IN /\ playerStatsMap' = t.stats
        /\ winStreaks' = t.streaks
        /\ totalStreakBonuses' = t.bonuses
  /\ done' = done + 1
  /\ UNCHANGED <<inputs, pc, players, groupRounds, result>>

\* lines 646-653
ApplyBonuses ==
  /\ pc = "rounds"
  /\ done = Len(Order)
  /\ playerStatsMap' = ApplyStreakBonuses(playerStatsMap, totalStreakBonuses)
  /\ pc' = "byes"
  /\ UNCHANGED <<inputs, players, winStreaks, totalStreakBonuses, groupRounds,
                 done, result>>

\* lines 655-669
Byes ==
  /\ pc = "byes"
  /\ playerStatsMap' = CalculateByes(playerStatsMap, GroupMatches(matches))
  /\ pc' = "wipe"
  /\ UNCHANGED <<inputs, players, winStreaks, totalStreakBonuses, groupRounds,
                 done, result>>

\* lines 671-694
Wipe ==
  /\ pc = "wipe"
  /\ playerStatsMap' = WipeNeverPlayed(playerStatsMap, matches)
  /\ pc' = "finals"
  /\ UNCHANGED <<inputs, players, winStreaks, totalStreakBonuses, groupRounds,
                 done, result>>

\* lines 697-727; `tournament.participants.map` on an undefined participants
\* raises a TypeError, which ends the call
Finals ==
  /\ pc = "finals"
  /\ IF Len(FinalMatches(matches)) > 0
     THEN IF HasParticipants(tournament)
          THEN /\ playerStatsMap' =
                    AssignFinalists(playerStatsMap, Finalists(tournament.participants))
               /\ pc' = "totals"
          ELSE /\ pc' = "threw"
               /\ UNCHANGED playerStatsMap
     ELSE /\ pc' = "totals"
          /\ UNCHANGED playerStatsMap
  /\ UNCHANGED <<inputs, players, winStreaks, totalStreakBonuses, groupRounds,
                 done, result>>

\* lines 729-755
Totals ==
  /\ pc = "totals"
  /\ playerStatsMap' = CalculateTotals(playerStatsMap)
  /\ pc' = "sort"
  /\ UNCHANGED <<inputs, players, winStreaks, totalStreakBonuses, groupRounds,
                 done, result>>

\* lines 757-759
Return ==
  /\ pc = "sort"
  /\ result' = SortByTotal(StatsValues(players, playerStatsMap), <<>>)
  /\ pc' = "done"
  /\ UNCHANGED <<inputs, players, playerStatsMap, winStreaks, totalStreakBonuses,
                 groupRounds, done>>

Next ==
  \/ ProcessData
  \/ Discover \/ SetupGroup \/ Process
  \/ ApplyBonuses \/ Byes \/ Wipe \/ Finals \/ Totals \/ Return

Spec == Init /\ [][Next]_vars

\* ================================================= properties
Returned == pc = "done"

\* The matches a player takes part in
MatchesOf(p) == { i \in 1..Len(matches) : matches[i].player1 = p \/ matches[i].player2 = p }

\* ---- C1
\* C1: every record calculatePlayerPoints returns has event_total equal to
\* swiss_wins*3 + swiss_close_losses*1.5 + swiss_losses*0.5 + streak_bonus
\* + byes*3 + finals_points of that same record (here in half points), and the
\* record returned is the player's final record.
C1_TotalIsWeightedSum ==
  Returned =>
    \A i \in 1..Len(result) :
      /\ result[i] = playerStatsMap[result[i].player]
      /\ result[i].event_total =
           6 * result[i].swiss_wins + 3 * result[i].swiss_close_losses
           + result[i].swiss_losses + result[i].streak_bonus
           + 6 * result[i].byes + 2 * result[i].finals_points

C1_Witness ==
  /\ Returned
  /\ \E i, j \in 1..Len(result) :
       /\ result[i].swiss_wins > 0 /\ result[i].finals_points > 0
       /\ result[j].byes > 0 /\ result[j].finals_points > 0
       /\ result[i].event_total # result[j].event_total

\* ---- C2
\* A complete, non-forfeited match with a numeric score, in any stage
IsGenuine(m) ==
  m.state = "complete" /\ ~m.forfeited /\ m.player1Score # Null /\ m.player2Score # Null

AllZero(r) ==
  /\ r.swiss_wins = 0 /\ r.swiss_losses = 0 /\ r.swiss_close_losses = 0
  /\ r.byes = 0 /\ r.streak_bonus = 0 /\ r.finals_points = 0 /\ r.event_total = 0

\* C2: in the returned list every player without a complete, non-forfeited,
\* scored match has every counter and event_total equal to 0, with or without
\* Group Stage matches and whatever the final ranks.
C2_NeverPlayedIsZero ==
  Returned =>
    \A i \in 1..Len(result) :
      (\A k \in MatchesOf(result[i].player) : ~IsGenuine(matches[k]))
        => AllZero(result[i])

\* ---- C3
\* C3: the returned list is non-increasing in event_total.
C3_SortedByTotal ==
  Returned =>
    \A i \in 1..(Len(result) - 1) : result[i].event_total >= result[i + 1].event_total

\* three players with three different totals, returned in another order than
\* the one they were discovered in
C3_Witness ==
  /\ Returned
  /\ Len(result) = 3
  /\ result[1].event_total > result[2].event_total
  /\ result[2].event_total > result[3].event_total
  /\ result[1].player # players[1]

\* ---- streaks (C4, C5, C6)
\* The Swiss pass is over and its streak bonuses have been applied
AfterSwiss == pc = "byes"

\* The forEach is about to visit the match Cur
Visiting == pc = "rounds" /\ done < Len(Order)
Cur == Order[done + 1]

RealPlayers(m) ==
  m.player1 # "BYE" /\ m.player2 # "BYE" /\ m.player1 # m.player2

\* A complete, scored, non-forfeited match between two real players that p won
RegularWin(m, p) ==
  /\ m.state = "complete" /\ ~m.forfeited
  /\ m.player1Score # Null /\ m.player2Score # Null
  /\ RealPlayers(m)
  /\ m.winner = p /\ (m.player1 = p \/ m.player2 = p)

\* A complete match, forfeited or scored, that the code attributes to the other
\* side: p's streak ends there
EndsStreak(m, p) ==
  /\ m.state = "complete" /\ RealPlayers(m)
  /\ m.forfeited \/ (m.player1Score # Null /\ m.player2Score # Null)
  /\ m.winner # NoName /\ m.winner # p
  /\ IF m.winner = m.player1 THEN m.player2 = p ELSE m.player1 = p

\* Half points of the streaks p had over the matches ms: each streak of n wins,
\* ended or standing, counts n - 1; cur is the streak standing so far
RECURSIVE StreakHalfPoints(_, _, _)
StreakHalfPoints(p, ms, cur) ==
  IF ms = <<>> THEN Max(0, cur - 1)
  ELSE IF RegularWin(Head(ms), p) THEN StreakHalfPoints(p, Tail(ms), cur + 1)
  ELSE IF EndsStreak(Head(ms), p)
       THEN Max(0, cur - 1) + StreakHalfPoints(p, Tail(ms), 0)
  ELSE StreakHalfPoints(p, Tail(ms), cur)

\* C4 (as claimed): the streak_bonus reported after the Swiss pass is
\* max(0, S - 1) * 0.5 for the win streak S standing at the end of the pass.
C4_BonusOfStandingStreak ==
  AfterSwiss =>
    \A p \in Range(players) :
      playerStatsMap[p].streak_bonus = Max(0, winStreaks[p] - 1)

\* C4 (amended): the streak_bonus reported after the Swiss pass is the sum, over
\* every streak the player had in the pass (the standing one and each one a
\* loss or forfeit loss ended), of max(0, length - 1) * 0.5; it is never below
\* max(0, S - 1) * 0.5 for the standing streak S.
C4_BonusOfAllStreaks ==
  AfterSwiss =>
    \A p \in Range(players) :
      /\ playerStatsMap[p].streak_bonus = StreakHalfPoints(p, Order, 0)
      /\ playerStatsMap[p].streak_bonus >= Max(0, winStreaks[p] - 1)

\* win, win, loss, win, win: S = 2 and a streak_bonus of 1.0
C4_Witness ==
  /\ AfterSwiss
  /\ matches = Ladder(<<"win", "win", "closeloss", "win", "win">>)
  /\ winStreaks["A"] = 2
  /\ playerStatsMap["A"].streak_bonus = 2

\* C5: from one processed match to the next no player's accumulated streak
\* bonus decreases: a regular win leaves it or adds 0.5, every other match
\* leaves it as it is; a loss resets only the streak counter.
C5_BonusNeverDecreases ==
  [][Visiting =>
       \A p \in Range(players) :
         /\ totalStreakBonuses'[p] >= totalStreakBonuses[p]
         /\ totalStreakBonuses'[p] - totalStreakBonuses[p] \in {0, 1}
         /\ ~RegularWin(Cur, p) => totalStreakBonuses'[p] = totalStreakBonuses[p]
         /\ RegularWin(Cur, p) =>
              totalStreakBonuses'[p] - totalStreakBonuses[p]
                = (IF winStreaks[p] >= 1 THEN 1 ELSE 0)]_vars

\* a player keeps an earned bonus after a forfeit loss has ended the streak
C5_Witness ==
  /\ pc = "rounds"
  /\ done >= 3
  /\ Order[done].forfeited /\ EndsStreak(Order[done], "A")
  /\ winStreaks["A"] = 0
  /\ totalStreakBonuses["A"] >= 1

\* The group matches of p
GroupMatchesOf(p) ==
  { i \in MatchesOf(p) : matches[i].stageName = "Group Stage" }

\* p's group matches are n regular wins in n consecutive rounds (n >= 1)
WinsEveryRound(p, n) ==
  LET G == GroupMatchesOf(p)
      R == { matches[i].round : i \in G }
  IN /\ n >= 1 /\ Cardinality(G) = n /\ Cardinality(R) = n
     /\ \A i \in G : RegularWin(matches[i], p)
     /\ \E lo \in R : R = lo..(lo + n - 1)

\* C6: a player whose Swiss matches are n regular wins in n consecutive rounds
\* ends with swiss_wins = n and streak_bonus = (n - 1) * 0.5, and the bonus
\* enters event_total once.
C6_WinsEveryRound ==
  Returned =>
    \A i \in 1..Len(result) : \A n \in 1..Len(matches) :
      WinsEveryRound(result[i].player, n) =>
        /\ result[i].swiss_wins = n
        /\ result[i].streak_bonus = n - 1
        /\ result[i].event_total =
             6 * n + (n - 1) + 6 * result[i].byes + 2 * result[i].finals_points

\* three wins in rounds 1, 2, 3: a streak bonus of 1.0
C6_Witness ==
  /\ Returned
  /\ \E i \in 1..Len(result) :
       /\ WinsEveryRound(result[i].player, 3)
       /\ result[i].streak_bonus = 2

\* ---- one match at a time (C7, C8, C9)
Other(m, p) == IF m.player1 = p THEN m.player2 ELSE m.player1

ResolvedWinner(m) == m.winner = m.player1 \/ m.winner = m.player2

\* Every counter of every player but those named is left alone
OthersKeep(ps) ==
  \A q \in Range(players) \ ps :
    /\ playerStatsMap'[q] = playerStatsMap[q]
    /\ winStreaks'[q] = winStreaks[q]
    /\ totalStreakBonuses'[q] = totalStreakBonuses[q]

\* The effect C7 gives a regular match won by w against l
RegularEffect(m, w, l) ==
  /\ playerStatsMap'[w].swiss_wins = playerStatsMap[w].swiss_wins + 1
  /\ winStreaks'[w] = winStreaks[w] + 1
  /\ winStreaks'[l] = 0
  /\ IF Abs(m.player1Score - m.player2Score) <= 2
     THEN /\ playerStatsMap'[l].swiss_close_losses = playerStatsMap[l].swiss_close_losses + 1
          /\ playerStatsMap'[l].swiss_losses = playerStatsMap[l].swiss_losses
     ELSE /\ playerStatsMap'[l].swiss_losses = playerStatsMap[l].swiss_losses + 1
          /\ playerStatsMap'[l].swiss_close_losses = playerStatsMap[l].swiss_close_losses
  /\ playerStatsMap'[l].swiss_wins = playerStatsMap[l].swiss_wins
  /\ playerStatsMap'[w].swiss_losses = playerStatsMap[w].swiss_losses
  /\ playerStatsMap'[w].swiss_close_losses = playerStatsMap[w].swiss_close_losses
  /\ OthersKeep({w, l})

\* A tournament of one regular Swiss match
OneRegularMatch ==
  /\ Len(matches) = 1
  /\ matches[1].stageName = "Group Stage"
  /\ RegularWin(matches[1], matches[1].winner)

TotalOf(p) == playerStatsMap[p].event_total

\* C7: a complete, scored, non-forfeited Swiss match between two real players
\* with a resolved winner adds 1 to the winner's swiss_wins and streak, resets
\* the loser's streak and adds 1 to one loss counter of the loser:
\* swiss_close_losses for a score difference <= 2, swiss_losses otherwise.  One
\* such match alone gives the winner 3 and the loser 1.5 (close) or 0.5.
C7_RegularMatch ==
  /\ [][Visiting /\ RegularWin(Cur, Cur.winner)
          => RegularEffect(Cur, Cur.winner, Other(Cur, Cur.winner))]_vars
  /\ [](Returned /\ OneRegularMatch =>
          LET m == matches[1]
          IN /\ TotalOf(m.winner) = 6
             /\ TotalOf(Other(m, m.winner)) =
                  (IF Abs(m.player1Score - m.player2Score) <= 2 THEN 3 ELSE 1))

\* a close loss by exactly 2 has been counted, and a wide one
C7_Witness ==
  /\ pc = "rounds" /\ done = 2
  /\ RegularWin(Order[1], Order[1].winner) /\ Order[1].scoreDifference > 2
  /\ RegularWin(Order[2], Order[2].winner) /\ Order[2].scoreDifference = 2
  /\ \E p \in Range(players) : playerStatsMap[p].swiss_close_losses = 1
  /\ \E p \in Range(players) : playerStatsMap[p].swiss_losses = 1

\* A complete forfeited match between two real players with a resolved winner
ForfeitWin(m) ==
  m.state = "complete" /\ m.forfeited /\ RealPlayers(m) /\ ResolvedWinner(m)

ForfeitEffect(w, l) ==
  /\ playerStatsMap'[w].swiss_wins = playerStatsMap[w].swiss_wins + 1
  /\ winStreaks'[w] = winStreaks[w]
  /\ totalStreakBonuses' = totalStreakBonuses
  /\ playerStatsMap'[l].swiss_losses = playerStatsMap[l].swiss_losses
  /\ playerStatsMap'[l].swiss_close_losses = playerStatsMap[l].swiss_close_losses
  /\ winStreaks'[l] = 0
  /\ OthersKeep({w, l})

\* C8: a complete forfeited Swiss match, scored or not, adds 1 to the winner's
\* swiss_wins, leaves the winner's streak counter and every streak bonus as
\* they are, changes no loss counter of the loser and resets the loser's streak.
C8_ForfeitMatch ==
  [][Visiting /\ ForfeitWin(Cur)
       => ForfeitEffect(Cur.winner, Other(Cur, Cur.winner))]_vars

\* a forfeit win has left a streak of 2 standing, and a scored forfeit was seen
C8_Witness ==
  /\ pc = "rounds" /\ done >= 4
  /\ ForfeitWin(Order[done]) /\ ~HasScore(Order[done])
  /\ winStreaks[Order[done].winner] = 2
  /\ \E k \in 1..done : ForfeitWin(Order[k]) /\ HasScore(Order[k])

\* A complete match that is not forfeited and carries no score
ImplicitBye(m) ==
  m.state = "complete" /\ ~m.forfeited
  /\ (m.player1Score = Null \/ m.player2Score = Null)

\* C9: an implicit bye changes no win, loss or close-loss counter and neither
\* resets nor extends a streak counter or a streak bonus.
C9_ImplicitBye ==
  [][Visiting /\ ImplicitBye(Cur)
       => /\ playerStatsMap' = playerStatsMap
          /\ winStreaks' = winStreaks
          /\ totalStreakBonuses' = totalStreakBonuses]_vars

\* an implicit bye with a named winner has left a streak of 2 standing
C9_Witness ==
  /\ pc = "rounds" /\ done >= 3
  /\ ImplicitBye(Order[done]) /\ RealPlayers(Order[done])
  /\ ResolvedWinner(Order[done])
  /\ winStreaks[Order[done].winner] = 2

\* ---- byes (C10)
TotalSwissRounds == Cardinality({ matches[i].round : i \in
                       { k \in 1..Len(matches) : matches[k].stageName = "Group Stage" } })

PlayedMatches(p) ==
  Cardinality({ i \in GroupMatchesOf(p) : matches[i].state = "complete" })

\* The pruning pass has zeroed p: there are group matches and none of p's
\* matches is complete, non-forfeited and scored
Pruned(p) ==
  /\ \E k \in 1..Len(matches) : matches[k].stageName = "Group Stage"
  /\ \A k \in MatchesOf(p) : ~IsGenuine(matches[k])

\* C10: every player the pruning pass has not zeroed has
\* byes = max(0, totalSwissRounds - playedMatches); byes is never negative.
C10_Byes ==
  Returned =>
    \A i \in 1..Len(result) :
      /\ result[i].byes >= 0
      /\ ~Pruned(result[i].player) =>
           result[i].byes =
             Max(0, TotalSwissRounds - PlayedMatches(result[i].player))

\* a bye from a round whose only match is still open
C10_Witness ==
  /\ Returned
  /\ \E i \in 1..Len(result) : result[i].byes = 1 /\ ~Pruned(result[i].player)
  /\ \E k \in 1..Len(matches) :
       matches[k].stageName = "Group Stage" /\ matches[k].state = "open"

\* ---- C11
\* The indices of the matches of the final stage
FinalIndices == { i \in 1..Len(matches) : IsFinalMatch(matches[i]) }

\* The Challonge identifier of the match matches[i] came from; the processed
\* match does not carry it.  The bracket ends with the grand final "G", the
\* match before it is the third-place match "3P"; every other match has a
\* letter.
Identifier(i) ==
  IF i \notin FinalIndices THEN "A"
  ELSE LET later == Cardinality({ j \in FinalIndices : j > i })
       IN IF later = 0 THEN "G" ELSE IF later = 1 THEN "3P" ELSE "B"

\* The record returned for player p
RecordOf(p) == playerStatsMap[p]

PlaceAndPoints(p, place, points) ==
  RecordOf(p).finals_place = place /\ RecordOf(p).finals_points = points

\* A complete match of the final stage with a resolved winner
DecidedFinal(i) ==
  /\ i \in FinalIndices
  /\ matches[i].state = "complete"
  /\ RealPlayers(matches[i])
  /\ ResolvedWinner(matches[i])

\* C11 as stated: for every complete Finals match with a resolved winner, the
\* winner of the match with identifier G is returned with finals_place 1 and
\* finals_points 6 and its loser with 2 and 4; the winner of the match with
\* identifier 3P with 3 and 3 and its loser with 4 and 2.
C11_FinalsFromMatchOutcome ==
  Returned =>
    \A i \in 1..Len(matches) :
      DecidedFinal(i) =>
        LET w == matches[i].winner
            l == Other(matches[i], w)
        IN /\ Identifier(i) = "G" =>
                PlaceAndPoints(w, 1, 6) /\ PlaceAndPoints(l, 2, 4)
           /\ Identifier(i) = "3P" =>
                PlaceAndPoints(w, 3, 3) /\ PlaceAndPoints(l, 4, 2)

\* final_rank of the participant named p; Null where there is none
FinalRankOf(p) ==
  IF /\ HasParticipants(tournament)
     /\ \E i \in 1..Len(tournament.participants) : tournament.participants[i].name = p
  THEN LET i == CHOOSE i \in 1..Len(tournament.participants) :
                  tournament.participants[i].name = p
       IN tournament.participants[i].final_rank
  ELSE Null

HasFinals == Len(FinalMatches(matches)) > 0

\* C11 (amended): the finals placement is read from the participants list and
\* not from any match: when there is at least one Finals match, a returned
\* player whose participant entry has final_rank r has finals_place r, and
\* finals_points 6, 4, 3, 2 for r = 1, 2, 3, 4; a player without final_rank,
\* and every player when there is no Finals match, has no finals_place and
\* finals_points 0.
C11_FinalsFromFinalRank ==
  Returned =>
    \A p \in Range(players) :
      LET r == FinalRankOf(p)
      IN IF HasFinals /\ r # Null
         THEN /\ RecordOf(p).finals_place = r
              /\ r = 1 => RecordOf(p).finals_points = 6
              /\ r = 2 => RecordOf(p).finals_points = 4
              /\ r = 3 => RecordOf(p).finals_points = 3
              /\ r = 4 => RecordOf(p).finals_points = 2
         ELSE PlaceAndPoints(p, Null, 0)

\* The grand final was won by the player ranked second: the winner is returned
\* with 4 points and the loser with 6
C11_Witness ==
  /\ Returned
  /\ \E i \in 1..Len(matches) :
       /\ DecidedFinal(i) /\ Identifier(i) = "G"
       /\ PlaceAndPoints(matches[i].winner, 2, 4)
       /\ PlaceAndPoints(Other(matches[i], matches[i].winner), 1, 6)

\* ---- C12
\* p is player1 or player2 of a match with identifier G or 3P
InTerminalMatch(p) ==
  \E i \in MatchesOf(p) : Identifier(i) \in { "G", "3P" }

C13_UnresolvedWinnerIsSkipped ==
  [][ (Visiting /\ Cur.state = "complete" /\ ~ResolvedWinner(Cur)) =>
        \A p \in Range(players) :
          /\ playerStatsMap'[p].swiss_wins = playerStatsMap[p].swiss_wins
          /\ playerStatsMap'[p].swiss_losses = playerStatsMap[p].swiss_losses
          /\ playerStatsMap'[p].swiss_close_losses =
               playerStatsMap[p].swiss_close_losses
          /\ winStreaks'[p] = winStreaks[p] ]_vars

\* ---- C14
\* C14: calculatePlayerPoints never raises: whatever the match list (empty,
\* Swiss only, Finals only or mixed) and for a tournament object that carries
\* no participants list, the call returns normally.
C14_NeverRaises == pc # "threw"

\* ---- C15
\* The distinct names other than "BYE" that occur as player1 or player2
Names ==
  UNION { { matches[i].player1, matches[i].player2 } : i \in 1..Len(matches) }
    \ { "BYE" }

\* C15: the returned list holds exactly one record for each distinct name other
\* than "BYE" that occurs as player1 or player2 of a match, and no other
\* record: none twice, none for "BYE", none for a participant who is in no
\* match; an empty match list gives an empty list.
C15_OneRecordPerPlayer ==
  Returned =>
    /\ { result[i].player : i \in 1..Len(result) } = Names
    /\ Len(result) = Cardinality(Names)

\* A met "BYE" and nobody else; the participants B and C are in no match
C15_Witness ==
  /\ Returned
  /\ \E i \in 1..Len(matches) : matches[i].player2 = "BYE"
  /\ FinalRankOf("C") = Null /\ "C" \notin Names
  /\ Len(result) = 1 /\ result[1].player = "A"

\* ---- C16
\* C16: the Swiss matches are visited in ascending numeric round order, also
\* with round numbers of 10 and more: no match has been visited while a match
\* of a lower round is still to come (round 2 comes before round 10).
C16_AscendingRounds ==
  pc = "rounds" =>
    \A i \in 1..done : \A j \in (done + 1)..Len(Order) :
      Order[i].round <= Order[j].round

\* ---- C17
\* matches without its i-th element
Without(i) == SubSeq(matches, 1, i - 1) \o SubSeq(matches, i + 1, Len(matches))

\* matches[i] is a Swiss match that is not complete, between two players who
\* are both in some other match
AddedIncomplete(i) ==
  /\ IsGroupMatch(matches[i])
  /\ matches[i].state # "complete"
  /\ { matches[i].player1, matches[i].player2 }
       \subseteq Range(DiscoverPlayers(Without(i), <<>>))

\* C17: a Swiss match that is not complete is skipped entirely: the list with
\* such a match between players already present gives every player the same
\* record (every counter, byes, event_total) as the list without it.
C17_IncompleteIsSkipped ==
  Returned =>
    \A i \in 1..Len(matches) :
      AddedIncomplete(i) =>
        \A p \in Range(players) :
          RecordOf(p) = FinalStatsMap(tournament, Without(i))[p]

\* ---- C18
\* The rearrangements of 1..n
Permutations(n) ==
  { f \in [1..n -> 1..n] : \A i, j \in 1..n : f[i] = f[j] => i = j }

\* The exchanges of two places of 1..n, and the identity
Transpositions(n) ==
  { [k \in 1..n |-> IF k = i THEN j ELSE IF k = j THEN i ELSE k] :
      i \in 1..n, j \in 1..n }

\* Every rearrangement of a list of up to MaxPermuted matches; of a longer
\* list, those that exchange two matches
Rearrangements(n) ==
  IF n <= MaxPermuted THEN Permutations(n) ELSE Transpositions(n)

Permuted(ms, f) == [i \in 1..Len(ms) |-> ms[f[i]]]

\* No two Swiss matches of the same round share a player
RoundsAreDisjoint ==
  \A i, j \in 1..Len(matches) :
    (i < j /\ IsGroupMatch(matches[i]) /\ IsGroupMatch(matches[j])
       /\ matches[i].round = matches[j].round) =>
      { matches[i].player1, matches[i].player2 }
        \cap { matches[j].player1, matches[j].player2 } = {}

FromApi == "matches" \in DOMAIN tournament /\ pc # "fetched"

\* The decimal numeral of n
RECURSIVE Decimal(_)
Decimal(n) ==
  IF n < 10 THEN <<DigitChars[n + 1]>>
  ELSE Append(Decimal(n \div 10), DigitChars[(n % 10) + 1])

\* The score string "a-b"
ScoreString(a, b) == Decimal(a) \o <<"-">> \o Decimal(b)

Scores == 0..12

\* The string is not empty and does not give two numbers
Unparseable(str) ==
  /\ str # <<>>
  /\ \/ Len(Split(str, "-")) < 2
     \/ ParseInt(Split(str, "-")[1]).nan
     \/ ParseInt(Split(str, "-")[2]).nan

\* C19: extractScoresFromCsv gives the first number of a score string "a-b"
\* to the winner: player2Score = a and player1Score = b when the winner is
\* player2, player1Score = a and player2Score = b when the winner is player1
\* or neither player; a non-empty score string that does not give two numbers
\* leaves both scores (and the score difference) null, and a match with such
\* a string that is not forfeited is visited by the Swiss pass without any
\* effect.
C19_ScoresFromCsv ==
  /\ [](FromApi =>
         \A i \in 1..Len(matches) :
           LET raw == tournament.matches[i]
               m == matches[i]
           IN /\ \A a, b \in Scores :
                   raw.scores_csv = ScoreString(a, b) =>
                     IF raw.winner_id = raw.player2_id
                     THEN m.player2Score = a /\ m.player1Score = b
                     ELSE m.player1Score = a /\ m.player2Score = b
              /\ Unparseable(raw.scores_csv) =>
                   /\ m.player1Score = Null /\ m.player2Score = Null
                   /\ m.scoreDifference = Null)
  /\ [][ (Visiting /\ FromApi /\ ~Cur.forfeited
           /\ \E i \in 1..Len(matches) :
                matches[i] = Cur /\ Unparseable(tournament.matches[i].scores_csv))
          => UNCHANGED <<playerStatsMap, winStreaks, totalStreakBonuses>> ]_vars

\* "5-2" with player2 the winner: player2 B has 5, player1 A has 2, and B is
\* returned with the win
C19_Witness ==
  /\ Returned /\ FromApi
  /\ tournament.matches[1].scores_csv = ScoreString(5, 2)
  /\ tournament.matches[1].winner_id = tournament.matches[1].player2_id
  /\ matches[1].player2Score = 5 /\ matches[1].player1Score = 2
  /\ RecordOf("B").swiss_wins = 1

\* "5-x" on a match that is not forfeited: visited, and nobody has a win or
\* a loss
C19_WitnessUnparseable ==
  /\ Returned /\ FromApi
  /\ Unparseable(tournament.matches[1].scores_csv)
  /\ ~matches[1].forfeited /\ IsGroupMatch(matches[1])
  /\ matches[1].winner = "A"
  /\ RecordOf("A").swiss_wins = 0 /\ RecordOf("B").swiss_losses = 0

====
